---- MODULE Spec2Model ----
(***************************************************************************)
(* Quiz session manager, attempt ledger and practice retrieval of the      *)
(* championsprep backend (app/api/v1/endpoints/quiz.py and student.py).    *)
(*                                                                         *)
(* Every handler is an `async def` whose database calls are synchronous    *)
(* (app/db/supabase.py builds the blocking client), so inside one event    *)
(* loop a handler runs from its first line to its return without another   *)
(* handler in between: one action per handler.  Two server processes       *)
(* (settings.WORKERS, or two instances) share nothing but the database, so *)
(* there the calls of submit_answer interleave at its database calls:      *)
(* SpecOverlap runs the handler as its four store calls.                   *)
(*                                                                         *)
(* Timestamps: datetime.utcnow() is the logical clock `now`, which ticks   *)
(* in every handler that gets as far as writing.  completed_at of a        *)
(* session and attempted_at of an attempt are kept on the rows; started_at,*)
(* answered_at and updated_at are written but never read by the handlers   *)
(* modelled here.  0 stands for a column that is still NULL.               *)
(***************************************************************************)
EXTENDS Integers, Sequences, FiniteSets, TLC

\* ------------------------------------------------------------- bounds
MaxClock == 3          \* handler calls that write (start, answer, submit)
MaxSessions == 2       \* rows of quiz_sessions
MaxLongClock == 5      \* the clock bound of SpecLong
MaxScoreTotal == 10    \* total_questions drawn by SpecScore
MaxStudySessions == 1  \* rows of study_sessions
MaxShortClock == 4     \* SpecLedger: the clock up to which calls write
MaxLedgerClock == 26   \* SpecLedger: the same for the long quiz submit
MaxSessionClock == 5   \* the clock bound of SpecSession
MaxMixedClock == 8     \* SpecLedger: the same for a quiz submit of five answers

\* ------------------------------------------------------------- inputs
Users == {"u1", "u2"}
None == "None"
QuizTypes == {"mcq", "adaptive", "timed", "mock_exam", "practice"}
Options == {"A", "B"}
Times == {1, 2}

\* QuizStartRequest.question_count: Field(10, ge=5, le=100)
MinQuestionCount == 5

\* ------------------------------------------------------- question store
\* ai_generated_content.  Of type mcq_medium: c1 holds an array of three
\* sub-questions, c2 and c5 one scalar question each; c3 (mcq_hard) and c4
\* (mcq_easy) hold arrays of four.  The store is read-only for every handler.
\* The content is the generator's JSON as the language model returned it,
\* stored unvalidated: the question of c5 carries a difficulty that is none
\* of easy, medium, hard.
ContentIds == {"c1", "c2", "c3", "c4", "c5"}

\* a question dict as the generator stores it: no "id" and no "marks" key
Question(answer, diff) ==
    [question_text |-> "text", options |-> Options,
     correct_answer |-> answer, explanation |-> "because", difficulty |-> diff]

Store ==
    [cid \in ContentIds |->
        CASE cid = "c1" ->
               [id |-> "c1", content_type |-> "mcq_medium", topic |-> "t1",
                is_list |-> TRUE,
                content |-> << Question("A", "easy"), Question("B", "medium"),
                               Question("A", "hard") >>]
          [] cid = "c2" ->
               [id |-> "c2", content_type |-> "mcq_medium", topic |-> "t2",
                is_list |-> FALSE,
                content |-> << Question("B", "medium") >>]
          [] cid = "c3" ->
               [id |-> "c3", content_type |-> "mcq_hard", topic |-> "t1",
                is_list |-> TRUE,
                content |-> << Question("A", "hard"), Question("B", "hard"),
                               Question("A", "hard"), Question("B", "hard") >>]
          [] cid = "c5" ->
               [id |-> "c5", content_type |-> "mcq_medium", topic |-> "t5",
                is_list |-> FALSE,
                content |-> << Question("A", "expert") >>]
          [] cid = "c4" ->
               [id |-> "c4", content_type |-> "mcq_easy", topic |-> "t1",
                is_list |-> TRUE,
                content |-> << Question("A", "easy"), Question("B", "easy"),
                               Question("A", "easy"), Question("B", "easy") >>]]

StoreOrder == << "c1", "c2", "c3", "c4", "c5" >>

\* ------------------------------------------------------- question ids
\* A question id is the string f"{content_id}_q{idx}" or the content id
\* alone; it is kept as its tokens, << cid, "_q", digits >> or << cid >>,
\* so that formatting and the split("_q") parsing are both computed.
Digits == << "0", "1", "2", "3" >>

\* str(idx) inside the f-string of _get_quiz_questions
StrOfInt(i) == Digits[i + 1]

\* int(...) of the token after "_q"
IntOfStr(s) == CHOOSE i \in 0..(Len(Digits) - 1) : Digits[i + 1] = s

ArrayQuestionId(cid, idx) == << cid, "_q", StrOfInt(idx) >>

ScalarQuestionId(cid) == << cid >>

\* "_q" in question_id
HasQ(qid) == \E i \in 1..Len(qid) : qid[i] = "_q"

FirstQ(qid) == CHOOSE i \in 1..Len(qid) :
                  qid[i] = "_q" /\ \A j \in 1..(i - 1) : qid[j] # "_q"

\* question_id.split("_q")[0] when "_q" is present, else question_id
ParseContentId(qid) == IF HasQ(qid) THEN SubSeq(qid, 1, FirstQ(qid) - 1) ELSE qid

\* int(question_id.split("_q")[1]) when "_q" is present, else 0
ParseQIndex(qid) == IF HasQ(qid) THEN IntOfStr(qid[FirstQ(qid) + 1]) ELSE 0

\* select("*").eq("id", content_id): the rows found, as a set of store keys
ContentRows(content_id) ==
    {cid \in ContentIds : << cid >> = content_id}

\* every id a client can send for a question the store holds
AllQuestionIds ==
    UNION {IF Store[cid].is_list
           THEN {ArrayQuestionId(cid, i - 1) : i \in 1..Len(Store[cid].content)}
           ELSE {ScalarQuestionId(cid)} : cid \in ContentIds}

\* ------------------------------------------------------------- state
VARIABLES
    sessions,   \* quiz_sessions: row i has id i
    ledger,     \* user_question_attempts, in insertion order
    coins,      \* user_profiles.coins per user
    tasks,      \* background tasks added and not yet run
    now,        \* datetime.utcnow()
    last,       \* the last handler call: request, status code, response
    study_sessions,  \* study_sessions: row i has id StudyId(i)
    inflight    \* per server process: the answer() call it is inside of

vars == << sessions, ledger, coins, tasks, now, last, study_sessions, inflight >>

\* The fields of `last`; a call fills in the ones it has.  question is the
\* id of the question served, current_question the dict sent for it (a
\* sequence of none or one), breakdown the questions_breakdown of
\* results(), analysis the difficulty_breakdown of submit().
NoCall ==
    [op |-> "none", user |-> None, sid |-> 0, code |-> 0,
     qid |-> << >>, selected |-> None, time |-> 0,
     is_correct |-> FALSE, has_next |-> FALSE,
     explanation |-> None, correct_answer |-> None,
     message |-> None, question |-> << >>,
     seen_difficulty |-> None, prior_selected |-> None,
     total_questions |-> 0, attempted_questions |-> 0, correct_answers |-> 0,
     accuracy |-> [num |-> 0, den |-> 1], coins_earned |-> 0,
     performance_level |-> None, quiz_type |-> None,
     content_type |-> None, topic |-> None, exclude_attempted |-> FALSE,
     limit |-> 0, result |-> {},
     show_explanation |-> FALSE, current_question |-> << >>,
     breakdown |-> << >>, suggested_difficulty |-> None,
     analysis |-> [d \in {"easy", "medium", "hard"} |-> [correct |-> 0, total |-> 0]]]

\* uuid4 ids of study_sessions rows are apart from those of quiz_sessions
StudyId(i) == 100 + i

\* the server processes (settings.WORKERS of them), and a process that is
\* inside no answer() call
Workers == {"w1", "w2"}

Idle ==
    [pc |-> "idle", user |-> None, sid |-> 0, qid |-> << >>, selected |-> None,
     time |-> 0, show_explanation |-> FALSE, session_data |-> << >>,
     existing |-> {}, coins |-> 0, current_coins |-> 0]

Init ==
    /\ sessions = << >>
    /\ ledger = << >>
    /\ coins = [u \in Users |-> 0]
    /\ tasks = << >>
    /\ now = 0
    /\ last = NoCall
    /\ study_sessions = << >>
    /\ inflight = [w \in Workers |-> Idle]

\* ------------------------------------------------------------- helpers
RECURSIVE Flatten(_)
Flatten(ss) == IF ss = << >> THEN << >> ELSE Head(ss) \o Flatten(Tail(ss))

Range(s) == {s[i] : i \in 1..Len(s)}

\* all orders random.shuffle can leave a list in
Shuffles(s) ==
    {[i \in 1..Len(s) |-> s[p[i]]] :
        p \in {f \in [1..Len(s) -> 1..Len(s)] : Range(f) = 1..Len(s)}}

\* lst[:count]
Take(s, count) == SubSeq(s, 1, IF count < Len(s) THEN count ELSE Len(s))

\* ---------------------------------------------------- _get_quiz_questions
\* The attempted ids are read and never used; the candidates are the rows
\* of content type mcq_<difficulty> (mcq_medium without one), filtered by
\* topic, flattened into sub-questions.
QuizContentType(difficulty) ==
    IF difficulty # None THEN "mcq_" \o difficulty ELSE "mcq_medium"

QuestionsOfRow(cid) ==
    IF Store[cid].is_list
    THEN [i \in 1..Len(Store[cid].content) |-> ArrayQuestionId(cid, i - 1)]
    ELSE << ScalarQuestionId(cid) >>

MatchingRows(content_type, topic) ==
    SelectSeq(StoreOrder,
              LAMBDA cid : /\ Store[cid].content_type = content_type
                           /\ (topic # None => Store[cid].topic = topic))

AllQuestions(difficulty, topic) ==
    Flatten([i \in 1..Len(MatchingRows(QuizContentType(difficulty), topic)) |->
                QuestionsOfRow(MatchingRows(QuizContentType(difficulty), topic)[i])])

\* the lists the call can return: one per order of the shuffle
GetQuizQuestions(user_id, difficulty, topic, count) ==
    {Take(s, count) : s \in Shuffles(AllQuestions(difficulty, topic))}

\* ------------------------------------------------------ the answers dict
\* session.answers is a Python dict: a sequence of entries in insertion
\* order; assigning to a key that is present keeps the key's position.
DictKeys(d) == {d[i].key : i \in 1..Len(d)}

DictSet(d, entry) ==
    IF entry.key \in DictKeys(d)
    THEN [i \in 1..Len(d) |-> IF d[i].key = entry.key THEN entry ELSE d[i]]
    ELSE Append(d, entry)

\* the selected_answer stored under a key, None when the key is absent
DictGet(d, key) ==
    IF key \in DictKeys(d)
    THEN d[CHOOSE i \in 1..Len(d) : d[i].key = key].selected_answer
    ELSE None

\* sum(1 for a in answers if a.get("is_correct"))
CountCorrect(d) == Cardinality({i \in 1..Len(d) : d[i].is_correct})

\* an accuracy is the exact quotient num/den of the float the code computes
\* (for totals up to 100 the float comparisons with 40, 60, 75, 80, 90
\* agree with the exact ones)
AtLeast(acc, k) == acc.num >= k * acc.den

AtMost(acc, k) == acc.num <= k * acc.den

\* session_data["current_question_index"]
Index(s) == s.current_question_index

SessionRowsOfAnyUser(sid, user_id) == {i \in DOMAIN sessions : i = sid}

\* select("*").eq("id", session_id).eq("user_id", current_user.id)
SessionRows(sid, user_id) ==
    {i \in DOMAIN sessions : i = sid /\ sessions[i].user_id = user_id}

\* -------------------------------------------------------- question dicts
\* None where an id is expected: the empty token sequence
NoId == << >>

\* d.get(k, default)
Get(d, k, default) == IF k \in DOMAIN d THEN d[k] ELSE default

\* d[k] = v on a dict
With(d, k, v) == [x \in DOMAIN d \cup {k} |-> IF x = k THEN v ELSE d[x]]

\* the row of the store a question id parses to (when there is one)
RowOf(qid) == Store[CHOOSE cid \in ContentRows(ParseContentId(qid)) : TRUE]

\* the dict _get_quiz_questions returns for a question id: the stored
\* dict with its "id" set (and _content_id, _question_index, never read)
QuizQuestion(qid) ==
    IF RowOf(qid).is_list
    THEN With(RowOf(qid).content[ParseQIndex(qid) + 1], "id", qid)
    ELSE With(RowOf(qid).content[1], "id", qid)

FormatQuestionRaw(question) == question

\* _format_question: five keys of the dict
FormatQuestion(question) ==
    [id |-> Get(question, "id", NoId),
     question_text |-> Get(question, "question_text", None),
     options |-> Get(question, "options", {}),
     difficulty |-> Get(question, "difficulty", None),
     marks |-> Get(question, "marks", 1)]

\* content is a dict, or a list that q_index is inside of
HasQuestion(qid) ==
    LET row == Store[CHOOSE cid \in ContentRows(ParseContentId(qid)) : TRUE] IN
    row.is_list => ParseQIndex(qid) < Len(row.content)

\* question_obj of get_next_question: the array element with its "id"
\* set, or the content itself (a dict, kept as stored)
QuestionObj(qid) ==
    IF RowOf(qid).is_list
    THEN With(RowOf(qid).content[ParseQIndex(qid) + 1], "id", qid)
    ELSE RowOf(qid).content[1]

\* ------------------------------------------------------------ start_quiz
StartQuiz(user, quiz_type, difficulty, topic, count) ==
    /\ \/ /\ AllQuestions(difficulty, topic) = << >>
          \* the 404 raised inside the try is caught by `except Exception`
          /\ last' = [NoCall EXCEPT !.op = "start", !.user = user, !.code = 500]
          /\ UNCHANGED << sessions, ledger, coins, tasks, now, study_sessions, inflight >>
       \/ /\ AllQuestions(difficulty, topic) # << >>
          /\ \E questions \in GetQuizQuestions(user, difficulty, topic, count) :
                /\ sessions' = Append(sessions,
                      [id |-> Len(sessions) + 1,
                       user_id |-> user,
                       quiz_type |-> quiz_type,
                       total_questions |-> Len(questions),
                       status |-> "in_progress",
                       questions |-> questions,
                       current_question_index |-> 0,
                       answers |-> << >>,
                       is_adaptive |-> (quiz_type = "adaptive"),
                       current_difficulty |->
                           IF difficulty # None THEN difficulty ELSE "medium",
                       completed_at |-> 0,
                       correct_answers |-> 0,
                       accuracy |-> [num |-> 0, den |-> 1],
                       coins_earned |-> 0])
                /\ last' = [NoCall EXCEPT !.op = "start", !.user = user,
                                          !.sid = Len(sessions) + 1, !.code = 200,
                                          !.quiz_type = quiz_type,
                                          !.total_questions = Len(questions),
                                          !.question = questions[1],
                                          !.current_question =
                                              << FormatQuestion(QuizQuestion(questions[1])) >>]
          /\ now' = now + 1
          /\ UNCHANGED << ledger, coins, tasks, study_sessions, inflight >>

\* ----------------------------------------------- _adjust_adaptive_difficulty
AdjustAdaptiveDifficultyOverAll(session_data) ==
    LET answers == session_data.answers
        n == Len(answers)
        correct == Cardinality({i \in 1..n : answers[i].is_correct})
        current_difficulty == session_data.current_difficulty
    IN  IF n >= 3
        THEN IF correct * 100 >= 80 * n /\ current_difficulty # "hard" THEN "hard"
             ELSE IF correct * 100 <= 40 * n /\ current_difficulty # "easy" THEN "easy"
             ELSE current_difficulty
        ELSE current_difficulty

\* the tier the session has after the call (the row is written only when
\* the tier differs from the one read)
AdjustAdaptiveDifficulty(session_data) ==
    LET answers == session_data.answers
        n == Len(answers)
        recent_correct == Cardinality({i \in (n - 2)..n : answers[i].is_correct})
        accuracy == [num |-> recent_correct * 100, den |-> 3]
        current_difficulty == session_data.current_difficulty
    IN  IF n >= 3
        THEN IF AtLeast(accuracy, 80) /\ current_difficulty # "hard" THEN "hard"
             ELSE IF AtMost(accuracy, 40) /\ current_difficulty # "easy" THEN "easy"
             ELSE current_difficulty
        ELSE current_difficulty

\* ------------------------------------------------------ get_next_question
\* whether get_next_question goes on to serve a question
ServesQuestion(session_data) ==
    session_data.current_question_index < Len(session_data.questions)

QuizCompletedWithNext(call) ==
    [call EXCEPT !.code = 200, !.message = "Quiz completed", !.has_next = TRUE]

\* return {"message": "Quiz completed", "has_next": False}
QuizCompleted(call) ==
    [call EXCEPT !.code = 200, !.message = "Quiz completed", !.has_next = FALSE]

GetNextQuestionAdjustingAny(user, sid) ==
    LET call == [NoCall EXCEPT !.op = "next", !.user = user, !.sid = sid] IN
    IF SessionRows(sid, user) = {}
    THEN /\ last' = [call EXCEPT !.code = 404]
         /\ UNCHANGED << sessions, ledger, coins, tasks, now, study_sessions, inflight >>
    ELSE
    LET session_data == sessions[sid]
        current_index == session_data.current_question_index
        question_ids == session_data.questions
        seen == [call EXCEPT !.seen_difficulty = session_data.current_difficulty,
                             !.quiz_type = session_data.quiz_type,
                             !.total_questions = Len(question_ids)]
    IN  IF session_data.status # "in_progress"
        THEN /\ last' = [seen EXCEPT !.code = 400]
             /\ UNCHANGED << sessions, ledger, coins, tasks, now, study_sessions, inflight >>
        ELSE IF ~ServesQuestion(session_data)
        THEN /\ last' = QuizCompleted(seen)
             /\ UNCHANGED << sessions, ledger, coins, tasks, now, study_sessions, inflight >>
        ELSE IF ContentRows(ParseContentId(question_ids[current_index + 1])) = {}
        THEN /\ last' = [seen EXCEPT !.code = 404]
             /\ UNCHANGED << sessions, ledger, coins, tasks, now, study_sessions, inflight >>
        ELSE /\ sessions' = [sessions EXCEPT ![sid].current_difficulty =
                                             AdjustAdaptiveDifficulty(session_data)]
             /\ last' =
                   IF HasQuestion(question_ids[current_index + 1])
                   THEN [seen EXCEPT
                            !.code = 200,
                            !.question = question_ids[current_index + 1],
                            !.current_question =
                                << FormatQuestion(QuestionObj(question_ids[current_index + 1])) >>,
                            !.has_next = (current_index + 1 < Len(question_ids))]
                   \* question_obj is the content list: .get raises
                   ELSE [seen EXCEPT !.code = 500]
             /\ UNCHANGED << ledger, coins, tasks, now, study_sessions, inflight >>

GetNextQuestion(user, sid) ==
    LET call == [NoCall EXCEPT !.op = "next", !.user = user, !.sid = sid] IN
    IF SessionRows(sid, user) = {}
    THEN /\ last' = [call EXCEPT !.code = 404]
         /\ UNCHANGED << sessions, ledger, coins, tasks, now, study_sessions, inflight >>
    ELSE
    LET session_data == sessions[sid]
        current_index == session_data.current_question_index
        question_ids == session_data.questions
        seen == [call EXCEPT !.seen_difficulty = session_data.current_difficulty,
                             !.quiz_type = session_data.quiz_type,
                             !.total_questions = Len(question_ids)]
    IN  IF session_data.status # "in_progress"
        THEN /\ last' = [seen EXCEPT !.code = 400]
             /\ UNCHANGED << sessions, ledger, coins, tasks, now, study_sessions, inflight >>
        ELSE IF ~ServesQuestion(session_data)
        THEN /\ last' = QuizCompleted(seen)
             /\ UNCHANGED << sessions, ledger, coins, tasks, now, study_sessions, inflight >>
        ELSE IF ContentRows(ParseContentId(question_ids[current_index + 1])) = {}
        THEN /\ last' = [seen EXCEPT !.code = 404]
             /\ UNCHANGED << sessions, ledger, coins, tasks, now, study_sessions, inflight >>
        ELSE /\ sessions' =
                   IF session_data.is_adaptive
                   THEN [sessions EXCEPT ![sid].current_difficulty =
                                             AdjustAdaptiveDifficulty(session_data)]
                   ELSE sessions
             /\ last' =
                   IF HasQuestion(question_ids[current_index + 1])
                   THEN [seen EXCEPT
                            !.code = 200,
                            !.question = question_ids[current_index + 1],
                            !.current_question =
                                << FormatQuestion(QuestionObj(question_ids[current_index + 1])) >>,
                            !.has_next = (current_index + 1 < Len(question_ids))]
                   \* question_obj is the content list: .get raises
                   ELSE [seen EXCEPT !.code = 500]
             /\ UNCHANGED << ledger, coins, tasks, now, study_sessions, inflight >>

\* ---------------------------------------------------------- submit_answer
\* the correct answer the handler reads for question_id (None when the
\* index is past the content array)
CorrectAnswerOf(qid) ==
    LET row == Store[CHOOSE cid \in ContentRows(ParseContentId(qid)) : TRUE]
        q_index == ParseQIndex(qid)
    IN  IF row.is_list
        THEN IF q_index < Len(row.content)
             THEN row.content[q_index + 1].correct_answer ELSE None
        ELSE row.content[1].correct_answer

ExplanationOf(qid) ==
    LET row == Store[CHOOSE cid \in ContentRows(ParseContentId(qid)) : TRUE] IN
    IF row.is_list THEN row.content[ParseQIndex(qid) + 1].explanation
    ELSE row.content[1].explanation

NextIndexWrapping(session_data) ==
    IF session_data.current_question_index + 1 > Len(session_data.questions)
    THEN 0 ELSE session_data.current_question_index + 1

\* updates["current_question_index"]
NextIndex(session_data) == session_data.current_question_index + 1

\* rows of the ledger with the key (user_id, content_id, session_id)
LedgerRows(user, qid, sid) ==
    {i \in DOMAIN ledger : /\ ledger[i].user_id = user
                           /\ ledger[i].content_id = qid
                           /\ ledger[i].session_id = sid}

\* attempt_data: a row of user_question_attempts
AttemptData(user, qid, sid, is_correct, time, at) ==
    [user_id |-> user, content_id |-> qid, session_id |-> sid,
     is_correct |-> is_correct, time_taken_seconds |-> time, attempted_at |-> at]

\* update({...}).eq("id", existing.data[0]["id"])
UpdateAttemptKeepingVerdict(rows, is_correct, time, at) ==
    LET first == CHOOSE i \in rows : \A j \in rows : i <= j IN
    [ledger EXCEPT ![first].time_taken_seconds = time,
                   ![first].attempted_at = at]

UpdateAttempt(rows, is_correct, time, at) ==
    LET first == CHOOSE i \in rows : \A j \in rows : i <= j IN
    [ledger EXCEPT ![first].is_correct = is_correct,
                   ![first].time_taken_seconds = time,
                   ![first].attempted_at = at]

UpsertAttemptAlwaysInsert(user, qid, sid, is_correct, time) ==
    Append(ledger, AttemptData(user, qid, sid, is_correct, time, now + 1))

\* the lookup-then-insert-or-update of the attempt
UpsertAttempt(user, qid, sid, is_correct, time) ==
    LET existing == LedgerRows(user, qid, sid) IN
    IF existing = {}
    THEN Append(ledger, AttemptData(user, qid, sid, is_correct, time, now + 1))
    ELSE UpdateAttempt(existing, is_correct, time, now + 1)

SubmitAnswerTrackingFirst(user, sid, qid, selected, time, show_explanation) ==
    LET failed == [NoCall EXCEPT !.op = "answer", !.user = user, !.sid = sid]
        call == [failed EXCEPT !.qid = qid, !.selected = selected, !.time = time,
                               !.show_explanation = show_explanation]
    IN
    IF SessionRows(sid, user) = {}
    THEN /\ last' = [failed EXCEPT !.code = 404]
         /\ UNCHANGED << sessions, ledger, coins, tasks, now, study_sessions, inflight >>
    ELSE IF ContentRows(ParseContentId(qid)) = {}
    THEN /\ last' = [failed EXCEPT !.code = 404]
         /\ ledger' = Append(ledger, AttemptData(user, qid, sid, FALSE, time, now + 1))
         /\ UNCHANGED << sessions, coins, tasks, now, study_sessions, inflight >>
    ELSE
    LET session_data == sessions[sid]
        correct_answer == CorrectAnswerOf(qid)
        is_correct == (selected = correct_answer)
        answers == DictSet(session_data.answers,
                           [key |-> qid, selected_answer |-> selected,
                            is_correct |-> is_correct, time_spent |-> time])
        reveal == show_explanation /\ ~is_correct /\ HasQuestion(qid)
    IN  /\ sessions' = [sessions EXCEPT
                           ![sid].answers = answers,
                           ![sid].current_question_index = NextIndex(session_data)]
        /\ ledger' = UpsertAttempt(user, qid, sid, is_correct, time)
        /\ last' = [call EXCEPT
                       !.code = 200,
                       !.is_correct = is_correct,
                       !.has_next = (NextIndex(session_data) < Len(session_data.questions)),
                       !.explanation = IF reveal THEN ExplanationOf(qid) ELSE None,
                       !.correct_answer = IF reveal THEN correct_answer ELSE None,
                       !.prior_selected = DictGet(session_data.answers, qid)]
        /\ now' = now + 1
        /\ UNCHANGED << coins, tasks, study_sessions, inflight >>

SubmitAnswer(user, sid, qid, selected, time, show_explanation) ==
    LET failed == [NoCall EXCEPT !.op = "answer", !.user = user, !.sid = sid]
        call == [failed EXCEPT !.qid = qid, !.selected = selected, !.time = time,
                               !.show_explanation = show_explanation]
    IN
    IF SessionRows(sid, user) = {}
    THEN /\ last' = [failed EXCEPT !.code = 404]
         /\ UNCHANGED << sessions, ledger, coins, tasks, now, study_sessions, inflight >>
    ELSE IF ContentRows(ParseContentId(qid)) = {}
    THEN /\ last' = [failed EXCEPT !.code = 404]
         /\ UNCHANGED << sessions, ledger, coins, tasks, now, study_sessions, inflight >>
    ELSE
    LET session_data == sessions[sid]
        correct_answer == CorrectAnswerOf(qid)
        is_correct == (selected = correct_answer)
        answers == DictSet(session_data.answers,
                           [key |-> qid, selected_answer |-> selected,
                            is_correct |-> is_correct, time_spent |-> time])
        reveal == show_explanation /\ ~is_correct /\ HasQuestion(qid)
    IN  /\ sessions' = [sessions EXCEPT
                           ![sid].answers = answers,
                           ![sid].current_question_index = NextIndex(session_data)]
        /\ ledger' = UpsertAttempt(user, qid, sid, is_correct, time)
        /\ last' = [call EXCEPT
                       !.code = 200,
                       !.is_correct = is_correct,
                       !.has_next = (NextIndex(session_data) < Len(session_data.questions)),
                       !.explanation = IF reveal THEN ExplanationOf(qid) ELSE None,
                       !.correct_answer = IF reveal THEN correct_answer ELSE None,
                       !.prior_selected = DictGet(session_data.answers, qid)]
        /\ now' = now + 1
        /\ UNCHANGED << coins, tasks, study_sessions, inflight >>

\* ------------------------------------- submit_answer, one store call a step
\* the entry submit_answer puts into the answers dict
AnswerEntry(qid, selected, time) ==
    [key |-> qid, selected_answer |-> selected,
     is_correct |-> (selected = CorrectAnswerOf(qid)), time_spent |-> time]

\* select of the session, and of the content row
AnswerRead(w, user, sid, qid, selected, time, show_explanation) ==
    /\ inflight[w].pc = "idle"
    /\ IF SessionRows(sid, user) = {} \/ ContentRows(ParseContentId(qid)) = {}
       THEN /\ last' = [NoCall EXCEPT !.op = "answer", !.user = user, !.sid = sid,
                                     !.code = 404]
            /\ UNCHANGED inflight
       ELSE /\ inflight' = [inflight EXCEPT ![w] =
                  [pc |-> "read", user |-> user, sid |-> sid, qid |-> qid,
                   selected |-> selected, time |-> time,
                   show_explanation |-> show_explanation,
                   session_data |-> << sessions[sid] >>, existing |-> {},
                   coins |-> 0, current_coins |-> 0]]
            /\ UNCHANGED last
    /\ UNCHANGED << sessions, ledger, coins, tasks, now, study_sessions >>

AnswerUpdateSessionAnswersOnly(w) ==
    LET c == inflight[w]
        session_data == c.session_data[1]
    IN  /\ c.pc = "read"
        /\ sessions' = [sessions EXCEPT
               ![c.sid].answers =
                   DictSet(session_data.answers, AnswerEntry(c.qid, c.selected, c.time))]
        /\ inflight' = [inflight EXCEPT ![w].pc = "updated"]
        /\ UNCHANGED << ledger, coins, tasks, now, last, study_sessions >>

\* update(updates).eq("id", session_id): answers and index as computed
\* from the row that was read
AnswerUpdateSession(w) ==
    LET c == inflight[w]
        session_data == c.session_data[1]
    IN  /\ c.pc = "read"
        /\ sessions' = [sessions EXCEPT
               ![c.sid].answers =
                   DictSet(session_data.answers, AnswerEntry(c.qid, c.selected, c.time)),
               ![c.sid].current_question_index = NextIndex(session_data)]
        /\ inflight' = [inflight EXCEPT ![w].pc = "updated"]
        /\ UNCHANGED << ledger, coins, tasks, now, last, study_sessions >>

\* select("id") of the attempt with the key
AnswerLookup(w) ==
    LET c == inflight[w] IN
    /\ c.pc = "updated"
    /\ inflight' = [inflight EXCEPT ![w].pc = "looked",
                                    ![w].existing = LedgerRows(c.user, c.qid, c.sid)]
    /\ UNCHANGED << sessions, ledger, coins, tasks, now, last, study_sessions >>

\* insert, or update of the row found, and the response
AnswerWrite(w) ==
    LET c == inflight[w]
        session_data == c.session_data[1]
        is_correct == (c.selected = CorrectAnswerOf(c.qid))
        reveal == c.show_explanation /\ ~is_correct /\ HasQuestion(c.qid)
    IN  /\ c.pc = "looked"
        /\ ledger' = IF c.existing = {}
                     THEN Append(ledger, AttemptData(c.user, c.qid, c.sid, is_correct,
                                                     c.time, now + 1))
                     ELSE UpdateAttempt(c.existing, is_correct, c.time, now + 1)
        /\ last' = [NoCall EXCEPT
                       !.op = "answer", !.user = c.user, !.sid = c.sid, !.qid = c.qid,
                       !.selected = c.selected, !.time = c.time,
                       !.show_explanation = c.show_explanation,
                       !.code = 200,
                       !.is_correct = is_correct,
                       !.has_next = (NextIndex(session_data) < Len(session_data.questions)),
                       !.explanation = IF reveal THEN ExplanationOf(c.qid) ELSE None,
                       !.correct_answer = IF reveal THEN CorrectAnswerOf(c.qid) ELSE None,
                       !.prior_selected = DictGet(session_data.answers, c.qid)]
        /\ inflight' = [inflight EXCEPT ![w].pc = "done"]
        /\ now' = now + 1
        /\ UNCHANGED << sessions, coins, tasks, study_sessions >>

\* ---------------------------------------------------------- scoring
\* accuracy = (correct_answers / total_questions * 100) if total_questions > 0 else 0
Accuracy(correct_answers, total_questions) ==
    IF total_questions > 0
    THEN [num |-> correct_answers * 100, den |-> total_questions]
    ELSE [num |-> 0, den |-> 1]

BaseCoins(quiz_type) ==
    CASE quiz_type = "mcq" -> 10
      [] quiz_type = "adaptive" -> 15
      [] quiz_type = "timed" -> 12
      [] quiz_type = "mock_exam" -> 50
      [] OTHER -> 10

CalculateCoinsStrict(accuracy, quiz_type) ==
    IF ~AtMost(accuracy, 90) THEN BaseCoins(quiz_type) * 2
    ELSE IF ~AtMost(accuracy, 75) THEN (BaseCoins(quiz_type) * 3) \div 2
    ELSE IF ~AtMost(accuracy, 60) THEN BaseCoins(quiz_type)
    ELSE BaseCoins(quiz_type) \div 2

\* int(x) truncates; base_coins * 1.5 and base_coins * 0.5 are exact floats
CalculateCoins(accuracy, quiz_type) ==
    IF AtLeast(accuracy, 90) THEN BaseCoins(quiz_type) * 2
    ELSE IF AtLeast(accuracy, 75) THEN (BaseCoins(quiz_type) * 3) \div 2
    ELSE IF AtLeast(accuracy, 60) THEN BaseCoins(quiz_type)
    ELSE BaseCoins(quiz_type) \div 2

GetPerformanceLevel(accuracy) ==
    IF AtLeast(accuracy, 90) THEN "Excellent"
    ELSE IF AtLeast(accuracy, 75) THEN "Good"
    ELSE IF AtLeast(accuracy, 60) THEN "Average"
    ELSE "Needs Improvement"

\* what submit_quiz derives from the count of correct answers
ComputeResults(correct_answers, total_questions, quiz_type) ==
    LET accuracy == Accuracy(correct_answers, total_questions) IN
    [accuracy |-> accuracy,
     coins_earned |-> CalculateCoins(accuracy, quiz_type),
     performance_level |-> GetPerformanceLevel(accuracy)]

\* ------------------------------------------------------ _generate_analysis
\* the keys of difficulty_breakdown
Tiers == {"easy", "medium", "hard"}

\* diff of an answered question whose content row is found
DifficultyOf(q_id) ==
    IF RowOf(q_id).is_list
    THEN IF ParseQIndex(q_id) < Len(RowOf(q_id).content)
         THEN Get(RowOf(q_id).content[ParseQIndex(q_id) + 1], "difficulty", "medium")
         ELSE "medium"
    ELSE Get(RowOf(q_id).content[1], "difficulty", "medium")

\* the answers whose content row is found (if question.data)
Resolved(answers) ==
    {i \in DOMAIN answers : ContentRows(ParseContentId(answers[i].key)) # {}}

\* difficulty_breakdown[diff] raises KeyError for a diff that is no key
AnalysisRaises(answers) ==
    \E i \in Resolved(answers) : DifficultyOf(answers[i].key) \notin Tiers

DifficultyBreakdown(answers) ==
    [d \in Tiers |->
        [correct |-> Cardinality({i \in Resolved(answers) :
                                     /\ DifficultyOf(answers[i].key) = d
                                     /\ answers[i].is_correct}),
         total |-> Cardinality({i \in Resolved(answers) :
                                   DifficultyOf(answers[i].key) = d})]]

\* ------------------------------------------------------------ submit_quiz
\* The analysis also compares the time_spent_minutes and the accuracy of the
\* row read before the update with 30 and 70; the table's schema is not part
\* of the sources, and the columns are taken to hold numbers from the start.
\* if session_data["status"] == "completed": raise 400
AlreadySubmitted(session_data) == session_data.status = "completed"

SubmitQuiz(user, sid) ==
    LET call == [NoCall EXCEPT !.op = "submit", !.user = user, !.sid = sid] IN
    IF SessionRows(sid, user) = {}
    THEN /\ last' = [call EXCEPT !.code = 404]
         /\ UNCHANGED << sessions, ledger, coins, tasks, now, study_sessions, inflight >>
    ELSE IF AlreadySubmitted(sessions[sid])
    THEN /\ last' = [call EXCEPT !.code = 400]
         /\ UNCHANGED << sessions, ledger, coins, tasks, now, study_sessions, inflight >>
    ELSE
    LET session_data == sessions[sid]
        answers == session_data.answers
        total_questions == session_data.total_questions
        correct_answers == CountCorrect(answers)
        results == ComputeResults(correct_answers, total_questions,
                                  session_data.quiz_type)
        accuracy == results.accuracy
        coins_earned == results.coins_earned
    IN  /\ sessions' = [sessions EXCEPT ![sid].status = "completed",
                                        ![sid].completed_at = now + 1,
                                        ![sid].correct_answers = correct_answers,
                                        ![sid].accuracy = accuracy,
                                        ![sid].coins_earned = coins_earned]
        /\ IF AnalysisRaises(answers)
           \* the KeyError leaves the handler after the row is written: the
           \* caller gets a 500 and the task added is never run
           THEN /\ tasks' = tasks
                /\ last' = [call EXCEPT !.code = 500]
           ELSE /\ tasks' = Append(tasks, [user_id |-> user, coins |-> coins_earned])
                /\ last' = [call EXCEPT
                               !.code = 200,
                               !.quiz_type = session_data.quiz_type,
                               !.total_questions = total_questions,
                               !.attempted_questions = Len(answers),
                               !.correct_answers = correct_answers,
                               !.accuracy = accuracy,
                               !.coins_earned = coins_earned,
                               !.performance_level = results.performance_level,
                               !.analysis = DifficultyBreakdown(answers)]
        /\ now' = now + 1
        /\ UNCHANGED << ledger, coins, study_sessions, inflight >>

\* ------------------------------------------------------- get_quiz_results
NotYetCompletedUnchecked(session_data) == FALSE

\* if session_data["status"] != "completed": raise 400
NotYetCompleted(session_data) == session_data.status # "completed"

\* the ids of the session whose content is found and holds the question
BreakdownIds(question_ids) ==
    SelectSeq(question_ids,
              LAMBDA q : ContentRows(ParseContentId(q)) # {} /\ HasQuestion(q))

\* one entry of questions_with_answers
BreakdownEntry(q_id, answers) ==
    [question |-> q_id,
     your_answer |-> DictGet(answers, q_id),
     correct_answer |-> CorrectAnswerOf(q_id),
     explanation |-> ExplanationOf(q_id)]

GetQuizResults(user, sid) ==
    LET call == [NoCall EXCEPT !.op = "results", !.user = user, !.sid = sid] IN
    /\ IF SessionRows(sid, user) = {}
       THEN last' = [call EXCEPT !.code = 404]
       ELSE IF NotYetCompleted(sessions[sid])
       THEN last' = [call EXCEPT !.code = 400]
       ELSE LET session_data == sessions[sid]
                ids == BreakdownIds(session_data.questions)
            IN  last' = [call EXCEPT
                            !.code = 200,
                            !.quiz_type = session_data.quiz_type,
                            !.total_questions = session_data.total_questions,
                            !.correct_answers = session_data.correct_answers,
                            !.accuracy = session_data.accuracy,
                            !.coins_earned = session_data.coins_earned,
                            !.breakdown =
                                [i \in 1..Len(ids) |->
                                    BreakdownEntry(ids[i], session_data.answers)]]
    /\ UNCHANGED << sessions, ledger, coins, tasks, now, study_sessions, inflight >>

\* ----------------------------------------------------------- _award_coins
AwardCoinsFailingSubmit ==
    \E i \in DOMAIN tasks :
        /\ tasks' = SubSeq(tasks, 1, i - 1) \o SubSeq(tasks, i + 1, Len(tasks))
        /\ \/ /\ coins' = [coins EXCEPT ![tasks[i].user_id] = @ + tasks[i].coins]
              /\ last' = last
           \/ /\ coins' = coins
              /\ last' = [last EXCEPT !.code = 500]
        /\ UNCHANGED << sessions, ledger, now, study_sessions, inflight >>

\* One background task runs: it credits the profile, or the store call
\* raises and the except clause swallows it.
AwardCoins ==
    \E i \in DOMAIN tasks :
        /\ tasks' = SubSeq(tasks, 1, i - 1) \o SubSeq(tasks, i + 1, Len(tasks))
        /\ \/ coins' = [coins EXCEPT ![tasks[i].user_id] = @ + tasks[i].coins]
           \/ coins' = coins
        /\ UNCHANGED << sessions, ledger, now, last, study_sessions, inflight >>

\* ------------------------------------- _award_coins, one store call a step
\* Tasks of submit() calls served by different processes run side by side.
\* select("coins") of the profile
CreditRead(w) ==
    /\ inflight[w].pc = "idle"
    /\ \E i \in DOMAIN tasks :
          /\ tasks' = SubSeq(tasks, 1, i - 1) \o SubSeq(tasks, i + 1, Len(tasks))
          /\ inflight' = [inflight EXCEPT ![w] =
                 [Idle EXCEPT !.pc = "credit_read", !.user = tasks[i].user_id,
                              !.coins = tasks[i].coins,
                              !.current_coins = coins[tasks[i].user_id]]]
    /\ UNCHANGED << sessions, ledger, coins, now, last, study_sessions >>

\* update({"coins": current_coins + coins})
CreditWrite(w) ==
    LET c == inflight[w] IN
    /\ c.pc = "credit_read"
    /\ coins' = [coins EXCEPT ![c.user] = c.current_coins + c.coins]
    /\ inflight' = [inflight EXCEPT ![w] = Idle]
    /\ UNCHANGED << sessions, ledger, tasks, now, last, study_sessions >>

\* ------------------------------------------------- practice retrieval
\* [a["content_id"] for a in attempted.data]
AttemptedIds(user) ==
    {ledger[i].content_id : i \in {j \in DOMAIN ledger : ledger[j].user_id = user}}

\* query.limit(n).execute() without an order: any n of the rows
Limited(rows, n) ==
    {r \in SUBSET rows :
        Cardinality(r) = IF n < Cardinality(rows) THEN n ELSE Cardinality(rows)}

\* the rows the filters of a retrieval keep, before the exclusion
FilteredRows(content_type, topic) ==
    {cid \in ContentIds :
        /\ (content_type # None => Store[cid].content_type = content_type)
        /\ (topic # None => Store[cid].topic = topic)}

\* query.not_.in_("id", attempted_ids), applied when the flag is set and
\* the list is not empty
ExcludeAttempted(rows, exclude_attempted, attempted_ids) ==
    IF exclude_attempted /\ attempted_ids # {}
    THEN {cid \in rows : << cid >> \notin attempted_ids}
    ELSE rows

\* POST /student/questions
GetQuestions(user, content_type, topic, exclude_attempted, limit) ==
    LET call == [NoCall EXCEPT !.op = "get_questions", !.user = user, !.code = 200,
                               !.content_type = content_type, !.topic = topic,
                               !.exclude_attempted = exclude_attempted,
                               !.limit = limit]
        query == ExcludeAttempted(FilteredRows(content_type, topic),
                                  exclude_attempted, AttemptedIds(user))
    IN  /\ \E result \in Limited(query, limit) :
              IF result # {}
              THEN last' = [call EXCEPT !.result = result]
              ELSE IF ~exclude_attempted
              THEN last' = [call EXCEPT !.result = {}]
              ELSE \* "Reset exclusion and try again"
                   \E again \in Limited(FilteredRows(content_type, None), limit) :
                       last' = [call EXCEPT !.result = again]
        /\ UNCHANGED << sessions, ledger, coins, tasks, now, study_sessions, inflight >>

\* GET /student/questions/random
GetRandomQuestions(user, content_type, exclude_attempted, count) ==
    LET call == [NoCall EXCEPT !.op = "get_random_questions", !.user = user,
                               !.code = 200, !.content_type = content_type,
                               !.exclude_attempted = exclude_attempted,
                               !.limit = count]
        query == ExcludeAttempted(FilteredRows(content_type, None),
                                  exclude_attempted, AttemptedIds(user))
    IN  /\ \E result \in Limited(query, count) :
              last' = [call EXCEPT !.result = result]
        /\ UNCHANGED << sessions, ledger, coins, tasks, now, study_sessions, inflight >>

\* ------------------------------------------------ study sessions, tracking
\* select("*").eq("id", session_id).eq("user_id", current_user.id) on
\* study_sessions
StudyRows(sid, user_id) ==
    {i \in DOMAIN study_sessions :
        study_sessions[i].id = sid /\ study_sessions[i].user_id = user_id}

\* POST /student/sessions/start
StartStudySession(user) ==
    /\ study_sessions' = Append(study_sessions,
                                [id |-> StudyId(Len(study_sessions) + 1),
                                 user_id |-> user, ended_at |-> 0])
    /\ last' = [NoCall EXCEPT !.op = "start_study", !.user = user, !.code = 200,
                              !.sid = StudyId(Len(study_sessions) + 1)]
    /\ now' = now + 1
    /\ UNCHANGED << sessions, ledger, coins, tasks, inflight >>

\* rows of the ledger with the key (user_id, content_id)
TrackedRows(user, content_id) ==
    {i \in DOMAIN ledger : ledger[i].user_id = user /\ ledger[i].content_id = content_id}

\* POST /student/attempts/track; session_id 0 is a request without one
TrackQuestionAttempt(user, content_id, session_id, is_correct, time) ==
    LET call == [NoCall EXCEPT !.op = "track", !.user = user, !.sid = session_id,
                               !.qid = content_id]
    IN  IF session_id = 0
        THEN /\ last' = [call EXCEPT !.code = 400]
             /\ UNCHANGED << sessions, ledger, coins, tasks, now, study_sessions, inflight >>
        ELSE IF StudyRows(session_id, user) = {}
        THEN /\ last' = [call EXCEPT !.code = 404]
             /\ UNCHANGED << sessions, ledger, coins, tasks, now, study_sessions, inflight >>
        ELSE IF TrackedRows(user, content_id) # {}
        THEN /\ last' = [call EXCEPT !.code = 200, !.message = "Already tracked"]
             /\ UNCHANGED << sessions, ledger, coins, tasks, now, study_sessions, inflight >>
        ELSE /\ ledger' = Append(ledger, AttemptData(user, content_id, session_id,
                                                     is_correct, time, now + 1))
             /\ last' = [call EXCEPT !.code = 200,
                                     !.message = "Attempt tracked successfully",
                                     !.is_correct = is_correct, !.time = time]
             /\ now' = now + 1
             /\ UNCHANGED << sessions, coins, tasks, study_sessions, inflight >>

\* ------------------------------------------- POST /student/quiz/{id}/submit
\* an element of the "answers" list of the request body
StudentAnswer(content_id, selected) ==
    [content_id |-> content_id, selected_answer |-> selected, time_spent |-> 1]

\* is_correct of the loop: some question of a content list has the selected
\* answer as its correct one; False for a content dict or a missing row
StudentIsCorrect(answer) ==
    /\ ContentRows(answer.content_id) # {}
    /\ RowOf(answer.content_id).is_list
    /\ \E i \in DOMAIN RowOf(answer.content_id).content :
          RowOf(answer.content_id).content[i].correct_answer = answer.selected_answer

\* the rows the loop inserts, one per answer, each at its own time
StudentAttempts(user, session_id, answer_list) ==
    [i \in 1..Len(answer_list) |->
        AttemptData(user, answer_list[i].content_id, session_id,
                    StudentIsCorrect(answer_list[i]), answer_list[i].time_spent,
                    now + i)]

StudentSubmitQuiz(user, session_id, answer_list) ==
    LET call == [NoCall EXCEPT !.op = "student_submit", !.user = user,
                               !.sid = session_id]
        correct_count == Cardinality({i \in DOMAIN answer_list :
                                         StudentIsCorrect(answer_list[i])})
        total_questions == Len(answer_list)
    IN  IF StudyRows(session_id, user) = {}
        THEN /\ last' = [call EXCEPT !.code = 404]
             /\ UNCHANGED << sessions, ledger, coins, tasks, now, study_sessions, inflight >>
        ELSE /\ ledger' = ledger \o StudentAttempts(user, session_id, answer_list)
             /\ study_sessions' =
                   [i \in DOMAIN study_sessions |->
                       IF study_sessions[i].id = session_id
                       THEN [study_sessions[i] EXCEPT !.ended_at = now + total_questions + 1]
                       ELSE study_sessions[i]]
             /\ last' = [call EXCEPT !.code = 200,
                                     !.total_questions = total_questions,
                                     !.correct_answers = correct_count,
                                     !.accuracy = Accuracy(correct_count, total_questions)]
             /\ now' = now + total_questions + 1
             /\ UNCHANGED << sessions, coins, tasks, inflight >>

\* ------------------------------------------------ GET /student/adaptive/next
\* .limit(20) of the recent attempts
RecentLimit == 20

\* .order("attempted_at", desc=True).limit(20): the rows of the user that
\* fewer than RecentLimit of its rows are newer than
RecentAttempts(user) ==
    LET mine == {i \in DOMAIN ledger : ledger[i].user_id = user} IN
    {i \in mine :
        Cardinality({j \in mine : ledger[j].attempted_at > ledger[i].attempted_at})
            < RecentLimit}

SuggestedDifficultyInclusive(accuracy) ==
    IF AtMost(accuracy, 60) THEN "easy"
    ELSE IF AtMost(accuracy, 80) THEN "medium"
    ELSE "hard"

SuggestedDifficulty(accuracy) ==
    IF ~AtLeast(accuracy, 60) THEN "easy"
    ELSE IF ~AtLeast(accuracy, 80) THEN "medium"
    ELSE "hard"

GetAdaptiveQuestions(user, topic, count) ==
    LET recent_attempts == RecentAttempts(user)
        correct == Cardinality({i \in recent_attempts : ledger[i].is_correct})
        accuracy == IF recent_attempts # {}
                    THEN [num |-> correct * 100, den |-> Cardinality(recent_attempts)]
                    ELSE [num |-> 0, den |-> 1]
        difficulty == SuggestedDifficulty(accuracy)
        attempted_ids == {ledger[i].content_id : i \in recent_attempts}
        query == ExcludeAttempted(FilteredRows("mcq_" \o difficulty, topic),
                                  TRUE, attempted_ids)
    IN  /\ \E result \in Limited(query, count) :
              last' = [NoCall EXCEPT !.op = "adaptive_next", !.user = user,
                                     !.code = 200, !.topic = topic, !.limit = count,
                                     !.result = result, !.accuracy = accuracy,
                                     !.suggested_difficulty = difficulty]
        /\ UNCHANGED << sessions, ledger, coins, tasks, now, study_sessions, inflight >>

\* ------------------------------------------------------ specification
\* The bounds of a run: the clock and the number of sessions.
Within(clock, rows) == now' <= clock /\ Len(sessions') <= rows

\* Spec: sessions of u1 over the one-question pool of topic t2 (t9 matches
\* nothing), answers to the session's question and to a question outside
\* it, the practice retrieval of u1, and u2 calling on sessions it does not
\* own.
StartUsers == {"u1"}
StartTypes == {"mcq"}
StartTopics == {"t2", "t9"}
AnswerIds == {ScalarQuestionId("c2"), ArrayQuestionId("c1", 0)}
\* the owner sends every request, the other user one
AnswerRequests(u) ==
    IF u \in StartUsers
    THEN AnswerIds \X Options \X Times \X BOOLEAN
    ELSE {<< ScalarQuestionId("c2"), "A", 1, FALSE >>}
SessionIds == 1..MaxSessions
RetrievalTopics == {None, "t2"}
RetrievalLimits == {1, 10}

Next ==
    \/ \E u \in StartUsers, qt \in StartTypes, t \in StartTopics :
          StartQuiz(u, qt, None, t, MinQuestionCount) /\ Within(MaxClock, MaxSessions)
    \/ \E u \in Users, sid \in SessionIds : GetNextQuestion(u, sid)
    \/ \E u \in Users, sid \in SessionIds :
          \E r \in AnswerRequests(u) :
             SubmitAnswer(u, sid, r[1], r[2], r[3], r[4]) /\ Within(MaxClock, MaxSessions)
    \/ \E u \in Users, sid \in SessionIds :
          SubmitQuiz(u, sid) /\ Within(MaxClock, MaxSessions)
    \/ \E u \in Users, sid \in SessionIds : GetQuizResults(u, sid)
    \/ AwardCoins
    \/ \E u \in StartUsers, t \in RetrievalTopics, x \in BOOLEAN, n \in RetrievalLimits :
          GetQuestions(u, "mcq_medium", t, x, n)
    \/ \E u \in StartUsers, x \in BOOLEAN, n \in RetrievalLimits :
          GetRandomQuestions(u, "mcq_medium", x, n)

Spec == Init /\ [][Next]_vars

\* SpecLong: one session of u1, adaptive or a mock exam, over a pool of
\* three, four or five questions, in every order of the shuffle and from
\* each starting tier; the client answers the question at the cursor.
LongTypes == {"adaptive", "mock_exam"}
LongStarts == {<< None, None >>, << None, "t1" >>, << "easy", None >>, << "hard", None >>}

NextLong ==
    \/ \E qt \in LongTypes, f \in LongStarts :
          /\ sessions = << >>
          /\ StartQuiz("u1", qt, f[1], f[2], MinQuestionCount)
    \/ \E sid \in {1} : GetNextQuestion("u1", sid)
    \/ \E sid \in DOMAIN sessions, a \in Options :
          /\ ServesQuestion(sessions[sid])
          /\ SubmitAnswer("u1", sid, sessions[sid].questions[Index(sessions[sid]) + 1],
                          a, 1, TRUE)
          /\ Within(MaxLongClock, 1)

SpecLong == Init /\ [][NextLong]_vars

\* SpecSession: one session of u1 over the one-question pool of topic t2 or
\* of topic t5, through its whole life: answers to its own question, to a
\* question of another content row and to a content id that does not exist,
\* answers of u2 to the session it does not own, next(), submit(), results()
\* and the credit task.
SessionTopics == {"t2", "t5"}
SessionAnswerIds == {ScalarQuestionId("c2"), ScalarQuestionId("c5"),
                     ArrayQuestionId("c1", 0), ScalarQuestionId("c9")}
SessionRequests(u) ==
    IF u \in StartUsers
    THEN SessionAnswerIds \X Options
    ELSE {<< ScalarQuestionId("c2"), "A" >>}

NextSession ==
    \/ \E t \in SessionTopics :
          /\ sessions = << >>
          /\ StartQuiz("u1", "mcq", None, t, MinQuestionCount)
    \/ \E u \in Users : GetNextQuestion(u, 1)
    \/ \E u \in Users :
          \E r \in SessionRequests(u) :
             SubmitAnswer(u, 1, r[1], r[2], 1, TRUE) /\ Within(MaxSessionClock, 1)
    \/ \E u \in Users : SubmitQuiz(u, 1) /\ Within(MaxSessionClock, 1)
    \/ \E u \in Users : GetQuizResults(u, 1)
    \/ AwardCoins

SpecSession == Init /\ [][NextSession]_vars

\* SpecLedger: every writer of the ledger (answer() of a quiz session, the
\* tracking, the student quiz submit with one answer or with one answer
\* followed by RecentLimit others) and the adaptive retrieval, for u1.
TrackIds == {ScalarQuestionId("c4"), ScalarQuestionId("c2")}
TrackSessions == {0, StudyId(1), StudyId(2)}
LongAnswerList ==
    << StudentAnswer(ScalarQuestionId("c4"), "A") >>
       \o [i \in 1..RecentLimit |-> StudentAnswer(ScalarQuestionId("c2"), "A")]
\* five answers of which three, and of which four, are correct
MixedAnswerList(correct) ==
    [i \in 1..5 |-> IF i <= correct
                    THEN StudentAnswer(ScalarQuestionId("c4"), "A")
                    ELSE StudentAnswer(ScalarQuestionId("c3"), "C")]
StudentAnswerLists ==
    {<< StudentAnswer(ScalarQuestionId("c4"), "A") >>,
     << StudentAnswer(ScalarQuestionId("c3"), "C") >>,
     MixedAnswerList(3), MixedAnswerList(4),
     LongAnswerList}

\* the bounds of a run of SpecLedger
WithinLedger(clock) ==
    /\ now' <= clock
    /\ Len(sessions') <= 1
    /\ Len(study_sessions') <= MaxStudySessions

NextLedger ==
    \/ StartStudySession("u1") /\ WithinLedger(MaxShortClock)
    \/ \E c \in TrackIds, sid \in TrackSessions, ok \in BOOLEAN :
          TrackQuestionAttempt("u1", c, sid, ok, 1) /\ WithinLedger(MaxShortClock)
    \/ \E sid \in TrackSessions, l \in StudentAnswerLists :
          /\ StudentSubmitQuiz("u1", sid, l)
          /\ WithinLedger(IF Len(l) > 5 THEN MaxLedgerClock
                          ELSE IF Len(l) > 1 THEN MaxMixedClock
                          ELSE MaxShortClock)
    \/ \E n \in RetrievalLimits : GetAdaptiveQuestions("u1", None, n)
    \/ StartQuiz("u1", "mcq", None, "t2", MinQuestionCount) /\ WithinLedger(MaxShortClock)
    \/ \E a \in Options :
          SubmitAnswer("u1", 1, ScalarQuestionId("c2"), a, 1, FALSE)
             /\ WithinLedger(MaxShortClock)

SpecLedger == Init /\ [][NextLedger]_vars

\* SpecOverlap: one session of u1 over the three questions of c1, and one
\* answer() call in each of the server processes, their store calls
\* interleaved in every order.
OverlapIds == {ArrayQuestionId("c1", 0), ArrayQuestionId("c1", 1)}

NextOverlap ==
    \/ /\ sessions = << >>
       /\ StartQuiz("u1", "mcq", None, "t1", MinQuestionCount)
    \/ \E w \in Workers, q \in OverlapIds, a \in Options :
          AnswerRead(w, "u1", 1, q, a, 1, FALSE)
    \/ \E w \in Workers : AnswerUpdateSession(w)
    \/ \E w \in Workers : AnswerLookup(w)
    \/ \E w \in Workers : AnswerWrite(w)

SpecOverlap == Init /\ [][NextOverlap]_vars

\* SpecCoins: u1 takes up to MaxSessions quizzes of the one question of
\* topic t2, answers and submits them, and the credit tasks run in two
\* processes, none of them failing.
NextCoins ==
    \/ StartQuiz("u1", "mcq", None, "t2", MinQuestionCount)
          /\ Within(MaxLongClock, MaxSessions)
    \/ \E sid \in SessionIds, a \in Options :
          SubmitAnswer("u1", sid, ScalarQuestionId("c2"), a, 1, FALSE)
             /\ Within(MaxLongClock, MaxSessions)
    \/ \E sid \in SessionIds :
          SubmitQuiz("u1", sid) /\ Within(MaxLongClock, MaxSessions)
    \/ \E w \in Workers : CreditRead(w)
    \/ \E w \in Workers : CreditWrite(w)

SpecCoins == Init /\ [][NextCoins]_vars

\* SpecScore: the scoring of submit_quiz on its own, over every count of
\* correct answers and total up to MaxScoreTotal and every quiz type.
InitScore ==
    /\ sessions = << >> /\ ledger = << >> /\ tasks = << >> /\ now = 0
    /\ coins = [u \in Users |-> 0]
    /\ study_sessions = << >> /\ inflight = [w \in Workers |-> Idle]
    /\ \E c \in 0..MaxScoreTotal, t \in 0..MaxScoreTotal, qt \in QuizTypes :
          last = [NoCall EXCEPT !.op = "score_request", !.correct_answers = c,
                                !.total_questions = t, !.quiz_type = qt]

Score ==
    /\ last.op = "score_request"
    /\ LET results == ComputeResults(last.correct_answers, last.total_questions,
                                     last.quiz_type)
       IN  last' = [last EXCEPT !.op = "score",
                                !.accuracy = results.accuracy,
                                !.coins_earned = results.coins_earned,
                                !.performance_level = results.performance_level]
    /\ UNCHANGED << sessions, ledger, coins, tasks, now, study_sessions, inflight >>

SpecScore == InitScore /\ [][Score]_vars

\* ------------------------------------------------------------- claims

\* C1: once submit() has succeeded on a session, every later answer() or
\* submit() on it by its owner fails with an invalid-state error (400), and
\* the session's current_index and answers never change again.
C1_TerminalLock ==
    [][\A sid \in DOMAIN sessions :
          sessions[sid].status = "completed" =>
             /\ Index(sessions'[sid]) = Index(sessions[sid])
             /\ sessions'[sid].answers = sessions[sid].answers
             /\ (/\ last' # last
                 /\ last'.op \in {"answer", "submit"}
                 /\ last'.sid = sid
                 /\ last'.user = sessions[sid].user_id) => last'.code = 400]_vars

\* C2: in every reachable state, every session has
\* 0 <= current_index <= len(question_ids).
C2_CursorBound ==
    \A sid \in DOMAIN sessions :
        /\ 0 <= Index(sessions[sid])
        /\ Index(sessions[sid]) <= Len(sessions[sid].questions)

\* C3: over any sequence of next() and answer() calls, one after the other,
\* a session's current_index never decreases from one state to the next.
C3_MonotonicCursor ==
    [][\A sid \in DOMAIN sessions :
          Index(sessions'[sid]) >= Index(sessions[sid])]_vars

\* the cursor has moved twice and an answer() has just returned
C3_Witness ==
    /\ last.op = "answer" /\ last.code = 200
    /\ Index(sessions[last.sid]) >= 2

\* C4: after an answer() the Attempt Ledger holds exactly one row for
\* (user_id, question_id, session_id), also when the question had been
\* answered before with another selected_answer, and the row's is_correct
\* and time_taken_seconds are those of this, the latest, submission.
C4_IdempotentUpsert ==
    /\ \A sid \in DOMAIN sessions : \A k \in DictKeys(sessions[sid].answers) :
          Cardinality(LedgerRows(sessions[sid].user_id, k, sid)) = 1
    /\ (last.op = "answer" /\ last.code = 200) =>
          \A i \in LedgerRows(last.user, last.qid, last.sid) :
             /\ ledger[i].is_correct = (last.selected = CorrectAnswerOf(last.qid))
             /\ ledger[i].time_taken_seconds = last.time

\* the same question answered a second time with a different answer
C4_Witness ==
    /\ last.op = "answer" /\ last.code = 200
    /\ last.prior_selected # None
    /\ last.prior_selected # last.selected
    /\ Cardinality(LedgerRows(last.user, last.qid, last.sid)) = 1

\* C5: repeating an identical answer() call (same session, question_id,
\* selected_answer, time) leaves current_index, answers and the ledger
\* (but for the time of the attempt) as the first call left them.
C5_RetryOneEffect ==
    [][(/\ last.op = "answer" /\ last.code = 200
        /\ last'.op = "answer" /\ last'.code = 200
        /\ now' # now
        /\ last'.user = last.user /\ last'.sid = last.sid /\ last'.qid = last.qid
        /\ last'.selected = last.selected /\ last'.time = last.time)
       => /\ Index(sessions'[last.sid]) = Index(sessions[last.sid])
          /\ sessions'[last.sid].answers = sessions[last.sid].answers
          /\ Len(ledger') = Len(ledger)
          /\ \A i \in DOMAIN ledger :
                [ledger'[i] EXCEPT !.attempted_at = 0]
                   = [ledger[i] EXCEPT !.attempted_at = 0]]_vars

\* C6: a session starts in_progress with completed_at unset; the only
\* change of status is in_progress -> completed, made by a successful
\* submit(), which also writes completed_at; completed_at is never written
\* otherwise, and nothing changes status or completed_at of a completed one.
C6_StateMachine ==
    [][/\ \A sid \in DOMAIN sessions' \ DOMAIN sessions :
             sessions'[sid].status = "in_progress" /\ sessions'[sid].completed_at = 0
       /\ \A sid \in DOMAIN sessions :
             LET old == sessions[sid]
                 new == sessions'[sid]
                 submitted == /\ old.status = "in_progress" /\ new.status = "completed"
                              /\ last'.op = "submit" /\ last'.sid = sid
                              /\ last'.code = 200 /\ last'.user = old.user_id
                              /\ old.completed_at = 0 /\ new.completed_at # 0
             IN  /\ (new.status # old.status \/ new.completed_at # old.completed_at)
                        => submitted
                 /\ (last'.op = "submit" /\ last'.sid = sid /\ last'.code = 200
                        /\ now' # now) => submitted]_vars

\* C7: a retrieval with exclude_attempted=true returns only items whose id
\* is no content_id of the caller's ledger rows (so nothing when every
\* candidate has been attempted).
C7_UniqueRetrieval ==
    (last.op \in {"get_questions", "get_random_questions"} /\ last.exclude_attempted)
       => \A cid \in last.result : << cid >> \notin AttemptedIds(last.user)

\* C8: start() never places in the new session's question_ids an id that
\* is a content_id of a ledger row of that user.
C8_AtMostOnceExposure ==
    (last.op = "start" /\ last.code = 200)
       => \A q \in Range(sessions[last.sid].questions) : q \notin AttemptedIds(last.user)

\* the three most recent entries of an answers map that are correct
RecentCorrect(answers) ==
    Cardinality({i \in 1..Len(answers) : i > Len(answers) - 3 /\ answers[i].is_correct})

\* the tier the claim gives from the tier before and the count of correct
\* answers among the last three
ClaimedTier(old, correct) ==
    IF correct * 100 >= 80 * 3 /\ old # "hard" THEN "hard"
    ELSE IF correct * 100 <= 40 * 3 /\ old # "easy" THEN "easy"
    ELSE old

TierAsClaimed(s) ==
    s.current_difficulty =
        IF Len(s.answers) >= 3
        THEN ClaimedTier(last.seen_difficulty, RecentCorrect(s.answers))
        ELSE last.seen_difficulty

\* C9 as stated: after each next() call of an adaptive session the tier is
\* hard when at least 80% of the 3 most recent answers are correct and it
\* was not hard, easy when at most 40% are and it was not easy, otherwise
\* (and with fewer than 3 answers) unchanged.
C9_TierOnEachNext ==
    (last.op = "next" /\ last.code = 200 /\ sessions[last.sid].is_adaptive)
       => TierAsClaimed(sessions[last.sid])

\* C9 amended: the same, for each next() call that serves a question
\* (session in progress, current_index < len(question_ids)); a call that
\* returns the 'no more questions' signal leaves the tier as it was.
C9_TierTransition ==
    (last.op = "next" /\ last.code = 200 /\ sessions[last.sid].is_adaptive)
       => IF last.question # << >>
          THEN TierAsClaimed(sessions[last.sid])
          ELSE sessions[last.sid].current_difficulty = last.seen_difficulty

\* a next() that served a question and moved the tier
C9_Witness ==
    /\ last.op = "next" /\ last.code = 200 /\ last.question # << >>
    /\ sessions[last.sid].is_adaptive
    /\ Len(sessions[last.sid].answers) >= 3
    /\ sessions[last.sid].current_difficulty # last.seen_difficulty

\* the coins the claim gives: int(base * factor) per quiz type and tier
ClaimedCoins(quiz_type, tier) ==
    LET row == CASE quiz_type = "mcq" -> << 20, 15, 10, 5 >>
                 [] quiz_type = "adaptive" -> << 30, 22, 15, 7 >>
                 [] quiz_type = "timed" -> << 24, 18, 12, 6 >>
                 [] quiz_type = "mock_exam" -> << 100, 75, 50, 25 >>
                 [] OTHER -> << 20, 15, 10, 5 >>
    IN  row[tier]

ClaimedLevels == << "Excellent", "Good", "Average", "Needs Improvement" >>

\* the tier of correct/total*100: 1 for >= 90, 2 for >= 75, 3 for >= 60, else 4
ClaimedTierOf(correct, total) ==
    IF total = 0 THEN 4
    ELSE IF correct * 100 >= 90 * total THEN 1
    ELSE IF correct * 100 >= 75 * total THEN 2
    ELSE IF correct * 100 >= 60 * total THEN 3
    ELSE 4

\* C10: the scoring gives accuracy = correct/total*100 (0 when total is
\* 0), and coins_earned and performance_level of the same accuracy tier:
\* >=90 int(base*2) Excellent, >=75 int(base*1.5) Good, >=60 base Average,
\* else int(base*0.5) Needs Improvement; base mcq 10, adaptive 15, timed 12,
\* mock_exam 50, others 10.
C10_ScoringTiers ==
    (last.op \in {"score", "submit"} /\ last.code \in {0, 200}) =>
       LET tier == ClaimedTierOf(last.correct_answers, last.total_questions) IN
       /\ (last.total_questions > 0 =>
              last.accuracy.num * last.total_questions
                 = last.correct_answers * 100 * last.accuracy.den)
       /\ (last.total_questions = 0 => last.accuracy.num = 0)
       /\ last.accuracy.den > 0
       /\ last.coins_earned = ClaimedCoins(last.quiz_type, tier)
       /\ last.performance_level = ClaimedLevels[tier]

\* 8 of 10 correct in a mock_exam scored 75 coins
C10_Witness ==
    /\ last.op = "score" /\ last.quiz_type = "mock_exam"
    /\ last.correct_answers = 8 /\ last.total_questions = 10
    /\ last.accuracy = [num |-> 800, den |-> 10]
    /\ last.coins_earned = 75 /\ last.performance_level = "Good"

\* a step of a handler that answers a request (the background task is the
\* one step that takes a task off the queue)
HandlerStep == Len(tasks') >= Len(tasks)

\* the caller of the call in last' owns the session it names
CallerOwns == /\ last'.sid \in DOMAIN sessions
              /\ sessions[last'.sid].user_id = last'.user

\* C11: next(), answer(), submit() or results() on a session the caller
\* does not own fails as not-found (404) with the very response given for
\* a session id that does not exist, and leaves the sessions, the ledger
\* and every coin balance unchanged.
C11_CrossUserIsolation ==
    [][(/\ HandlerStep
        /\ last'.op \in {"next", "answer", "submit", "results"}
        /\ ~CallerOwns)
       => /\ last' = [NoCall EXCEPT !.op = last'.op, !.user = last'.user,
                                    !.sid = last'.sid, !.code = 404]
          /\ sessions' = sessions /\ ledger' = ledger /\ coins' = coins
          /\ tasks' = tasks]_vars

\* an answer() on another user's session was refused as not found
C11_Witness ==
    /\ last.op = "answer" /\ last.code = 404
    /\ last.sid \in DOMAIN sessions
    /\ sessions[last.sid].user_id # last.user
    /\ sessions[last.sid].answers = << >>

\* C12: a start() that fails (the candidate set is empty) answers with a
\* 4xx status and creates no session.
C12_EmptyStartIs4xx ==
    [][(last'.op = "start" /\ last'.code # 200)
       => (last'.code \in 400..499 /\ sessions' = sessions)]_vars

\* C13: next() by the owner on a session that is not in_progress fails
\* with 400, results() by the owner on a session that is not completed
\* fails with 400, and neither changes the sessions.
C13_ReadStatusGuards ==
    [][(HandlerStep /\ CallerOwns) =>
          /\ (last'.op = "next" /\ sessions[last'.sid].status # "in_progress")
                => (last'.code = 400 /\ sessions' = sessions)
          /\ (last'.op = "results" /\ sessions[last'.sid].status # "completed")
                => (last'.code = 400 /\ sessions' = sessions)]_vars

\* results() was refused on a session still in progress
C13_Witness ==
    /\ last.op = "results" /\ last.code = 400
    /\ last.sid \in DOMAIN sessions
    /\ sessions[last.sid].user_id = last.user
    /\ sessions[last.sid].status = "in_progress"

\* C14: on an in-progress session with current_index >= len(question_ids)
\* each next() of the owner returns the 'no more questions' signal with
\* has_next false, without an error and without changing the session.
C14_EndOfQuiz ==
    [][(/\ HandlerStep /\ CallerOwns /\ last'.op = "next"
        /\ sessions[last'.sid].status = "in_progress"
        /\ Index(sessions[last'.sid]) >= Len(sessions[last'.sid].questions))
       => /\ last'.code = 200
          /\ last'.message = "Quiz completed"
          /\ ~last'.has_next
          /\ last'.current_question = << >>
          /\ sessions' = sessions]_vars

\* the signal was given after every question had been answered
C14_Witness ==
    /\ last.op = "next" /\ last.code = 200 /\ last.message = "Quiz completed"
    /\ sessions[last.sid].status = "in_progress"
    /\ Len(sessions[last.sid].answers) = Len(sessions[last.sid].questions)
    /\ Index(sessions[last.sid]) >= Len(sessions[last.sid].questions)

HiddenKeys == {"correct_answer", "explanation"}

\* a question dict of a store that differs in the hidden fields
Redacted(question) ==
    [k \in DOMAIN question |-> IF k \in HiddenKeys THEN None ELSE question[k]]

\* the dict the handler of the call in `last` formatted
ServedDict ==
    IF last.op = "start" THEN QuizQuestion(last.question) ELSE QuestionObj(last.question)

\* C15: a start() or next() response carries no correct_answer and no
\* explanation, and is the response the same call gives over a store that
\* differs in those two fields; an answer() response carries them only
\* when the answer was incorrect and show_explanation was requested.
C15_AnswerDisclosure ==
    /\ last.op \in {"start", "next"} =>
          /\ last.correct_answer = None /\ last.explanation = None
          /\ \A i \in DOMAIN last.current_question :
                /\ DOMAIN last.current_question[i] \cap HiddenKeys = {}
                /\ last.current_question[i] = FormatQuestion(Redacted(ServedDict))
    /\ (last.op = "answer" /\ (last.correct_answer # None \/ last.explanation # None))
          => (~last.is_correct /\ last.show_explanation)

\* next() served a question whose stored dict holds the correct answer
C15_Witness ==
    /\ last.op = "next" /\ last.code = 200
    /\ last.current_question # << >>
    /\ "correct_answer" \in DOMAIN QuestionObj(last.question)

\* C16: the run of the background coin credit, failed or not, changes no
\* session and not the response of submit(): the session stays completed
\* with the coins_earned that submit() returned; a failed credit leaves
\* every balance as it was.
C16_CreditFailureSwallowed ==
    [][Len(tasks') < Len(tasks) =>
          /\ sessions' = sessions /\ last' = last /\ ledger' = ledger
          /\ \A u \in Users : coins'[u] >= coins[u]
          /\ (last'.op = "submit" /\ last'.code = 200) =>
                /\ sessions'[last'.sid].status = "completed"
                /\ sessions'[last'.sid].coins_earned = last'.coins_earned]_vars

\* submit() returned, its credit has run and failed: the balance is 0
C16_Witness ==
    /\ last.op = "submit" /\ last.code = 200 /\ last.coins_earned > 0
    /\ tasks = << >>
    /\ coins[last.user] = 0
    /\ sessions[last.sid].status = "completed"
    /\ sessions[last.sid].coins_earned = last.coins_earned

\* C17: the ledger holds at most one row per (user_id, content_id,
\* session_id), whichever of answer(), the tracking and the student quiz
\* submit wrote it.
C17_LedgerKeyUnique ==
    \A i, j \in DOMAIN ledger :
        (/\ ledger[i].user_id = ledger[j].user_id
         /\ ledger[i].content_id = ledger[j].content_id
         /\ ledger[i].session_id = ledger[j].session_id) => i = j

\* C20: GET /student/adaptive/next returns no item whose id is the
\* content_id of a ledger row of the caller.
C20_AdaptiveExclusion ==
    last.op = "adaptive_next"
       => \A cid \in last.result : << cid >> \notin AttemptedIds(last.user)

\* two answer() calls on one session, both returned
BothDone(w1, w2) ==
    /\ w1 # w2
    /\ inflight[w1].pc = "done" /\ inflight[w2].pc = "done"
    /\ inflight[w1].sid = inflight[w2].sid
    /\ inflight[w1].user = inflight[w2].user

\* the cursor of the session before the earlier of the two calls read it
IndexBefore(w1, w2) ==
    IF Index(inflight[w1].session_data[1]) < Index(inflight[w2].session_data[1])
    THEN Index(inflight[w1].session_data[1])
    ELSE Index(inflight[w2].session_data[1])

\* C18: after two answer() calls for different questions of one session,
\* however their store calls interleaved, both answers are in
\* session.answers and current_index has advanced by two.
C18_AtomicMutation ==
    \A w1, w2 \in Workers :
        (BothDone(w1, w2) /\ inflight[w1].qid # inflight[w2].qid)
           => /\ {inflight[w1].qid, inflight[w2].qid}
                    \subseteq DictKeys(sessions[inflight[w1].sid].answers)
              /\ Index(sessions[inflight[w1].sid]) = IndexBefore(w1, w2) + 2

\* C19: after two answer() calls for the same (user_id, question_id,
\* session_id), however their store calls interleaved, the ledger holds
\* exactly one row for that key.
C19_OverlappingRetry ==
    \A w1, w2 \in Workers :
        (BothDone(w1, w2) /\ inflight[w1].qid = inflight[w2].qid)
           => Cardinality(LedgerRows(inflight[w1].user, inflight[w1].qid,
                                     inflight[w1].sid)) = 1

\* C23: the difficulty breakdown of submit() counts each answered question
\* whose content row is found under exactly one of easy, medium, hard: its
\* stored difficulty, or medium when that is missing or none of the three;
\* the three totals sum to the number of such answers, each correct count is
\* at most its total, and submit() on an owned session in progress does not
\* fail.
ClaimedDifficulty(q_id) ==
    IF DifficultyOf(q_id) \in Tiers THEN DifficultyOf(q_id) ELSE "medium"

C23_DifficultyBreakdown ==
    (last.op = "submit" /\ last.code \notin {400, 404}) =>
        LET answers == sessions[last.sid].answers
            resolved == Resolved(answers)
            under(d) == {i \in resolved : ClaimedDifficulty(answers[i].key) = d}
        IN  /\ last.code = 200
            /\ \A d \in Tiers :
                  /\ last.analysis[d].total = Cardinality(under(d))
                  /\ last.analysis[d].correct =
                        Cardinality({i \in under(d) : answers[i].is_correct})
                  /\ last.analysis[d].correct <= last.analysis[d].total
            /\ last.analysis["easy"].total + last.analysis["medium"].total
                  + last.analysis["hard"].total = Cardinality(resolved)

\* C25: every key of a session's answers map is one of the session's
\* question ids.
C25_AnswersBelong ==
    \A sid \in DOMAIN sessions :
       \A i \in DOMAIN sessions[sid].answers :
          sessions[sid].answers[i].key \in Range(sessions[sid].questions)

\* C26: every result of submit() has correct_answers <= attempted_questions
\* <= total_questions and an accuracy between 0 and 100.
C26_BoundedScore ==
    (last.op = "submit" /\ last.code = 200) =>
        /\ last.correct_answers <= last.attempted_questions
        /\ last.attempted_questions <= last.total_questions
        /\ AtLeast(last.accuracy, 0)
        /\ AtMost(last.accuracy, 100)

\* C27: a completed session's stored correct_answers is the number of
\* correct entries of its answers map, and its stored coins_earned is the
\* value computed from that number, total_questions and quiz_type.
C27_PersistedResults ==
    \A sid \in DOMAIN sessions :
       sessions[sid].status = "completed" =>
          /\ sessions[sid].correct_answers = CountCorrect(sessions[sid].answers)
          /\ sessions[sid].coins_earned =
                CalculateCoins(Accuracy(CountCorrect(sessions[sid].answers),
                                        sessions[sid].total_questions),
                               sessions[sid].quiz_type)

C30_FailedAnswerFrame ==
    [][(HandlerStep /\ last'.op = "answer" /\ last'.code # 200)
          => (sessions' = sessions /\ ledger' = ledger)]_vars

\* the owner's answer to a content id that does not exist has failed on a
\* session that holds answers, and so has the other user's answer
C30_Witness ==
    /\ last.op = "answer" /\ last.code = 404
    /\ sessions # << >>
    /\ sessions[last.sid].answers # << >>
    /\ ledger # << >>
    /\ last.user = sessions[last.sid].user_id

\* C21: adaptive/next takes the accuracy of the caller's 20 newest ledger
\* rows (0 when it has none), suggests easy below 60, medium from 60 to
\* below 80 and hard from 80, and returns only items whose content type is
\* mcq_ followed by the suggested difficulty.
NewestRows(user) ==
    {i \in DOMAIN ledger :
        /\ ledger[i].user_id = user
        /\ Cardinality({j \in DOMAIN ledger :
                           /\ ledger[j].user_id = user
                           /\ ledger[j].attempted_at >= ledger[i].attempted_at}) <= 20}

NewestCorrect(user) == Cardinality({i \in NewestRows(user) : ledger[i].is_correct})

C22_AnswersWithinCursor ==
    \A sid \in DOMAIN sessions :
       Len(sessions[sid].answers) <= sessions[sid].current_question_index

\* two overlapping calls on different questions have both returned and one
\* has overwritten the other's update: one answer, cursor at 1
C22_Witness ==
    /\ \A w \in Workers : inflight[w].pc = "done"
    /\ \E w1, w2 \in Workers : inflight[w1].qid # inflight[w2].qid
    /\ Len(sessions[1].answers) = 1
    /\ sessions[1].current_question_index = 1

\* C24: a next() call, on a session of any quiz type, leaves every session
\* row as it was but for current_difficulty, and changes current_difficulty
\* only on the adaptive session it was called on.
C24_NextFrame ==
    [][(HandlerStep /\ last'.op = "next") =>
          /\ DOMAIN sessions' = DOMAIN sessions
          /\ \A sid \in DOMAIN sessions :
                /\ sessions'[sid] =
                      [sessions[sid] EXCEPT
                          !.current_difficulty = sessions'[sid].current_difficulty]
                /\ sessions'[sid].current_difficulty # sessions[sid].current_difficulty
                      => (sid = last'.sid /\ sessions[sid].quiz_type = "adaptive")
          /\ ledger' = ledger]_vars

\* next() has served a question of a mock exam whose last three answers are
\* all correct, and the session's tier is the one it started with
C24_Witness ==
    /\ last.op = "next" /\ last.code = 200 /\ last.current_question # << >>
    /\ last.quiz_type = "mock_exam"
    /\ LET answers == sessions[last.sid].answers
           n == Len(answers)
       IN  /\ n >= 3
           /\ \A i \in (n - 2)..n : answers[i].is_correct
           /\ sessions[last.sid].current_difficulty = "medium"

\* C28: whatever the interleaving of a user's submit() calls and credit
\* tasks, none of which fails, once every task has run the user's balance is
\* the initial balance plus the coins_earned of the user's completed
\* sessions.
RECURSIVE EarnedUpTo(_, _)
EarnedUpTo(user, n) ==
    IF n = 0 THEN 0
    ELSE EarnedUpTo(user, n - 1)
            + (IF sessions[n].user_id = user /\ sessions[n].status = "completed"
               THEN sessions[n].coins_earned ELSE 0)

C28_CreditedOnce ==
    (tasks = << >> /\ \A w \in Workers : inflight[w].pc = "idle")
       => \A u \in Users : coins[u] = EarnedUpTo(u, Len(sessions))

====
